---- MODULE Spec2Model ----
(***************************************************************************)
(* Cassandra controllers of provider-sql: the Keyspace, Role and Grant     *)
(* external clients (Observe / Create / Update / Delete) and the           *)
(* CassandraDB handle they drive.                                          *)
(*                                                                         *)
(* A Go string is a sequence of fragments; concatenation is \o.  A name    *)
(* is spelled character by character, so that quoting acts on it; the      *)
(* fixed pieces of a statement are single fragments.  An optional (pointer)*)
(* field is a sequence of length at most one: <<>> is nil, <<v>> is &v.    *)
(***************************************************************************)
EXTENDS Integers, Sequences, FiniteSets, TLC

VARIABLES cr, store, db, input, result, issued, pc

vars == <<cr, store, db, input, result, issued, pc>>

(* ------------------------------ bounds -------------------------------- *)

\* Largest replication factor a desired state or a stored row carries.
MaxFactor == 12
\* Longest desired privilege list.
MaxPrivs == 2
\* Most rows the permission query returns for one (role, resource).
MaxRows == 2

\* Longest name given to QuoteIdentifier in QuoteSpec.
MaxNameLen == 3

\* Sessions counted as open at most.
MaxSessions == 2

(* ------------------------------ strings ------------------------------- *)

Nil == <<>>

Ptr(v) == <<v>>

Deref(p) == p[1]

Opt(S) == {Nil} \cup {Ptr(v) : v \in S}

Digits == <<"0", "1", "2", "3", "4", "5", "6", "7", "8", "9">>

DigitVal(c) == (CHOOSE i \in 1..10 : Digits[i] = c) - 1

IsDigit(c) == \E i \in 1..10 : Digits[i] = c

RECURSIVE Itoa(_)
Itoa(n) ==
    IF n < 0 THEN <<"-">> \o Itoa(-n)
    ELSE IF n < 10 THEN <<Digits[n + 1]>>
    ELSE Itoa(n \div 10) \o <<Digits[(n % 10) + 1]>>

RECURSIVE DigitsValue(_)
DigitsValue(s) ==
    IF s = <<>> THEN 0
    ELSE 10 * DigitsValue(SubSeq(s, 1, Len(s) - 1)) + DigitVal(s[Len(s)])

\* strconv.Atoi: the value and whether the text was an integer; 0 on error.
Atoi(s) ==
    LET neg  == Len(s) >= 1 /\ s[1] = "-"
        body == IF Len(s) >= 1 /\ s[1] \in {"-", "+"} THEN Tail(s) ELSE s
        ok   == body # <<>> /\ \A i \in 1..Len(body) : IsDigit(body[i])
    IN  IF ~ok THEN [val |-> 0, ok |-> FALSE]
        ELSE [val |-> IF neg THEN 0 - DigitsValue(body) ELSE DigitsValue(body),
              ok |-> TRUE]

FormatBool(b) == IF b THEN "true" ELSE "false"

HasPrefix(s, p) == Len(s) >= Len(p) /\ SubSeq(s, 1, Len(p)) = p

TrimPrefix(s, p) == IF HasPrefix(s, p) THEN SubSeq(s, Len(p) + 1, Len(s)) ELSE s

\* strings.ReplaceAll for a one-character pattern.
RECURSIVE ReplaceAll(_, _, _)
ReplaceAll(s, old, new) ==
    IF s = <<>> THEN <<>>
    ELSE (IF Head(s) = old THEN new ELSE <<Head(s)>>) \o ReplaceAll(Tail(s), old, new)

\* Variant: the name is wrapped as it is.
QuoteIdentifierPlain(id) == <<"\"">> \o id \o <<"\"">>

QuoteIdentifier(id) == <<"\"">> \o ReplaceAll(id, "\"", <<"\"", "\"">>) \o <<"\"">>

\* errors.Wrap(err, msg) and errors.New(msg + ": " + err.Error()).
Wrap(err, msg) == <<msg, ": ">> \o err

NoError == <<>>

(* --------------------------- the data store --------------------------- *)

\* The keyspace and the role the resources name; Names is every object name
\* the store holds a place for.
KeyspaceName == <<"k", "s">>

RoleName == <<"a", "\"", "b">>

Names == {KeyspaceName, RoleName}

NoRow == <<>>

LocatorPrefix == <<"org.apache.cassandra.locator.">>

SimpleStrategy == <<"SimpleStrategy">>

NetworkTopologyStrategy == <<"NetworkTopologyStrategy">>

\* The store reads a delimited identifier starting at s[i] = '"': a doubled
\* quote is one quote of the name, a single one ends it.
RECURSIVE ReadQuoted(_, _, _)
ReadQuoted(s, i, acc) ==
    IF i > Len(s) THEN [name |-> acc, next |-> i, ok |-> FALSE]
    ELSE IF s[i] = "\"" THEN
        IF i + 1 <= Len(s) /\ s[i + 1] = "\""
        THEN ReadQuoted(s, i + 2, Append(acc, "\""))
        ELSE [name |-> acc, next |-> i + 1, ok |-> TRUE]
    ELSE ReadQuoted(s, i + 1, Append(acc, s[i]))

ReadIdentifier(s, i) ==
    IF i <= Len(s) /\ s[i] = "\"" THEN ReadQuoted(s, i + 1, <<>>)
    ELSE [name |-> <<>>, next |-> i, ok |-> FALSE]

\* First position from i on that holds fragment tok, or 0.
IndexFrom(s, tok, i) ==
    IF \E j \in i..Len(s) : s[j] = tok
    THEN CHOOSE j \in i..Len(s) : s[j] = tok /\ \A k \in i..(j - 1) : s[k] # tok
    ELSE 0

\* The replication map of a stored keyspace: a function from the keys it has.
ReplicationMap(class, factor) ==
    [k \in (IF class = Nil THEN {} ELSE {"class"})
           \cup (IF factor = Nil THEN {} ELSE {"replication_factor"})
        |-> IF k = "class" THEN Deref(class) ELSE Deref(factor)]

StoredClasses ==
    {LocatorPrefix \o SimpleStrategy, LocatorPrefix \o NetworkTopologyStrategy,
     SimpleStrategy}

Factors == {1, MaxFactor}

\* replication_factor texts a row may hold; the last one is no integer.
StoredFactors == {Itoa(n) : n \in Factors} \cup {<<"x">>}

KeyspaceRows ==
    {[replication |-> ReplicationMap(c, f), durable_writes |-> d] :
        c \in Opt(StoredClasses), f \in Opt(StoredFactors), d \in BOOLEAN}

Passwords == {<<"p1">>, <<"p2">>}

RoleRows == [is_superuser : BOOLEAN, can_login : BOOLEAN, password : Passwords]

\* Permission names as the store spells them.
StorePermissions == {<<"ALL", " ", "PERMISSIONS">>, <<"SELECT">>, <<"MODIFY">>}

RECURSIVE SeqsUpTo(_, _)
SeqsUpTo(S, n) ==
    IF n = 0 THEN {<<>>}
    ELSE LET shorter == SeqsUpTo(S, n - 1)
         IN  shorter \cup {Append(q, x) : q \in {r \in shorter : Len(r) = n - 1}, x \in S}

Range(f) == {f[x] : x \in DOMAIN f}

\* The ways the store may return a permission set: as at most MaxRows rows,
\* each a non-empty part of it, no permission in two rows, that together hold
\* all of it.
RowSplits[s \in SUBSET StorePermissions] ==
    {q \in SeqsUpTo(SUBSET s \ {{}}, MaxRows) :
        /\ UNION Range(q) = s
        /\ \A i, j \in DOMAIN q : i # j => q[i] \cap q[j] = {}}

EmptyStore ==
    [keyspaces   |-> [n \in Names |-> NoRow],
     roles       |-> [n \in Names |-> NoRow],
     permissions |-> [p \in Names \X Names |-> {}]]

\* What the store makes of the text of a statement.
ParseStatement(text) ==
    LET verb == IF text = <<>> THEN "" ELSE text[1]
        id   == ReadIdentifier(text, 2)
        bad  == [verb |-> "?"]
    IN  CASE verb = "CREATE KEYSPACE IF NOT EXISTS " ->
                LET c0 == id.next
                    f0 == IndexFrom(text, "', 'replication_factor': ", c0)
                    d0 == IndexFrom(text, "} AND durable_writes = ", c0)
                IN  IF id.ok /\ c0 <= Len(text)
                       /\ text[c0] = " WITH replication = {'class': '"
                       /\ c0 < f0 /\ f0 < d0 /\ d0 + 1 = Len(text)
                       /\ text[d0 + 1] \in {"true", "false"}
                    THEN [verb |-> "CREATE KEYSPACE", name |-> id.name,
                          class  |-> SubSeq(text, c0 + 1, f0 - 1),
                          factor |-> SubSeq(text, f0 + 1, d0 - 1),
                          durable_writes |-> (text[d0 + 1] = "true")]
                    ELSE bad
          [] verb = "DROP KEYSPACE IF EXISTS " ->
                IF id.ok /\ id.next = Len(text) + 1
                THEN [verb |-> "DROP KEYSPACE", name |-> id.name] ELSE bad
          [] verb \in {"CREATE ROLE IF NOT EXISTS ", "ALTER ROLE "} ->
                LET n == id.next
                    alter == verb = "ALTER ROLE "
                    pass == Len(text) >= n + 5
                IN  IF id.ok /\ (pass \/ (alter /\ Len(text) = n + 3))
                       /\ text[n] = " WITH SUPERUSER = "
                       /\ text[n + 1] \in {"true", "false"}
                       /\ text[n + 2] = " AND LOGIN = "
                       /\ text[n + 3] \in {"true", "false"}
                       /\ (pass => text[n + 4] = " AND PASSWORD = '" /\ text[Len(text)] = "'")
                    THEN [verb |-> IF alter THEN "ALTER ROLE" ELSE "CREATE ROLE",
                          name |-> id.name,
                          is_superuser |-> (text[n + 1] = "true"),
                          can_login |-> (text[n + 3] = "true"),
                          password |-> IF pass THEN Ptr(SubSeq(text, n + 5, Len(text) - 1)) ELSE Nil]
                    ELSE bad
          [] verb = "DROP ROLE IF EXISTS " ->
                IF id.ok /\ id.next = Len(text) + 1
                THEN [verb |-> "DROP ROLE", name |-> id.name] ELSE bad
          [] verb \in {"GRANT ", "REVOKE "} ->
                LET on == IndexFrom(text, " ON KEYSPACE ", 2)
                    ks == ReadIdentifier(text, on + 1)
                    to == IF verb = "GRANT " THEN " TO " ELSE " FROM "
                    ro == ReadIdentifier(text, ks.next + 1)
                IN  IF on > 2 /\ ks.ok /\ ks.next <= Len(text) /\ text[ks.next] = to
                       /\ ro.ok /\ ro.next = Len(text) + 1
                    THEN [verb |-> IF verb = "GRANT " THEN "GRANT" ELSE "REVOKE",
                          permission |-> SubSeq(text, 2, on - 1),
                          keyspace |-> ks.name, role |-> ro.name]
                    ELSE bad
          [] OTHER -> bad

\* Statements the store refuses whatever its health: text it cannot parse, a
\* name it has no place for, ALTER of a role that does not exist.
Refuses(st, p) ==
    \/ p.verb = "?"
    \/ p.verb \in {"CREATE KEYSPACE", "DROP KEYSPACE", "CREATE ROLE", "ALTER ROLE",
                   "DROP ROLE"} /\ p.name \notin Names
    \/ p.verb \in {"GRANT", "REVOKE"} /\ <<p.role, p.keyspace>> \notin Names \X Names
    \/ p.verb = "ALTER ROLE" /\ p.name \in Names /\ st.roles[p.name] = NoRow
    \/ p.verb = "CREATE ROLE" /\ p.password = Nil

StoreRefuses(st, text) == Refuses(st, ParseStatement(text))

\* The store's state after it has accepted and run a statement.
Applied(st, p) ==
    CASE p.verb = "CREATE KEYSPACE" ->
                IF st.keyspaces[p.name] # NoRow THEN st
                ELSE [st EXCEPT !.keyspaces[p.name] =
                        <<[replication |-> ReplicationMap(Ptr(LocatorPrefix \o p.class),
                                                          Ptr(p.factor)),
                           durable_writes |-> p.durable_writes]>>]
          [] p.verb = "DROP KEYSPACE" -> [st EXCEPT !.keyspaces[p.name] = NoRow]
          [] p.verb = "CREATE ROLE" ->
                IF st.roles[p.name] # NoRow THEN st
                ELSE [st EXCEPT !.roles[p.name] =
                        <<[is_superuser |-> p.is_superuser, can_login |-> p.can_login,
                           password |-> Deref(p.password)]>>]
          [] p.verb = "ALTER ROLE" ->
                [st EXCEPT !.roles[p.name] =
                    <<[is_superuser |-> p.is_superuser, can_login |-> p.can_login,
                       password |-> IF p.password = Nil THEN Deref(@).password
                                    ELSE Deref(p.password)]>>]
          [] p.verb = "DROP ROLE" -> [st EXCEPT !.roles[p.name] = NoRow]
          [] p.verb = "GRANT" ->
                [st EXCEPT !.permissions[<<p.role, p.keyspace>>] =
                    @ \cup {p.permission}]
          [] p.verb = "REVOKE" ->
                [st EXCEPT !.permissions[<<p.role, p.keyspace>>] =
                    @ \ {p.permission}]
          [] OTHER -> st

StoreApply(st, text) == Applied(st, ParseStatement(text))

\* The row sequences the store may return for a query it answers.
StoreReplies(st, text, args) ==
    LET head == IF text = <<>> THEN "" ELSE text[1]
    IN  CASE head = "SELECT replication, durable_writes FROM system_schema.keyspaces WHERE keyspace_name = ?" ->
                {IF args[1] \in Names THEN st.keyspaces[args[1]] ELSE <<>>}
          [] head = "SELECT is_superuser, can_login FROM system_auth.roles WHERE role = ?" ->
                {IF args[1] \in Names /\ st.roles[args[1]] # NoRow
                 THEN <<[is_superuser |-> Deref(st.roles[args[1]]).is_superuser,
                         can_login |-> Deref(st.roles[args[1]]).can_login]>>
                 ELSE <<>>}
          [] head = "SELECT permissions FROM system_auth.role_permissions WHERE role = ? AND resource = 'data/" ->
                LET ks == SubSeq(text, 2, Len(text) - 1)
                IN  IF text[Len(text)] = "'" /\ <<args[1], ks>> \in Names \X Names
                    THEN RowSplits[st.permissions[<<args[1], ks>>]] ELSE {<<>>}
          [] OTHER -> {<<>>}

\* What a query sent to the store comes back with: Nil when the store fails
\* it, else one of the row sequences.
Replies(st, text, args) == {Nil} \cup {Ptr(r) : r \in StoreReplies(st, text, args)}

(* ------------------------- the CassandraDB handle --------------------- *)

Statement(text, args) == [text |-> text, args |-> args]

\* Variant: Exec does not look at the session before it sends the statement.
ExecUnguarded(sess, st, text, accept) ==
    IF ~accept \/ StoreRefuses(st, text)
    THEN [err |-> <<"failed to execute query: ", "store error">>, store |-> st,
          sent |-> <<Statement(text, <<>>)>>]
    ELSE [err |-> NoError, store |-> StoreApply(st, text),
          sent |-> <<Statement(text, <<>>)>>]

\* CassandraDB.Exec: accept is whether the store takes the statement.
Exec(sess, st, text, accept) ==
    IF ~sess
    THEN [err |-> <<"Cassandra session is not initialized">>, store |-> st, sent |-> <<>>]
    ELSE IF ~accept \/ StoreRefuses(st, text)
    THEN [err |-> <<"failed to execute query: ", "store error">>, store |-> st,
          sent |-> <<Statement(text, <<>>)>>]
    ELSE [err |-> NoError, store |-> StoreApply(st, text),
          sent |-> <<Statement(text, <<>>)>>]

\* CassandraDB.Query: reply is what the store comes back with; the iterator
\* of a query the store failed scans no row.
Query(sess, text, args, reply) ==
    IF ~sess
    THEN [err |-> <<"cassandra session is not initialized">>, rows |-> <<>>, sent |-> <<>>]
    ELSE [err |-> NoError,
          rows |-> IF reply # Nil THEN Deref(reply) ELSE <<>>,
          sent |-> <<Statement(text, args)>>]

\* Variant: the two credentials change places.
GetConnectionDetailsSwapped(c, username, password) ==
    [username |-> password, password |-> username,
     endpoint |-> c.endpoint, port |-> c.port]

GetConnectionDetails(c, username, password) ==
    [username |-> username, password |-> password,
     endpoint |-> c.endpoint, port |-> c.port]

(* ------------------------------ results ------------------------------- *)

NoSecret == <<>>

\* managed.ExternalObservation / ExternalCreation / ExternalUpdate and the error.
Result(op, err, exists, li, utd, secret) ==
    [op |-> op, err |-> err, exists |-> exists, lateInit |-> li, upToDate |-> utd,
     secret |-> secret]

Failed(op, err) == Result(op, err, FALSE, FALSE, FALSE, NoSecret)

Outcome(c, st, res, sent) == [cr |-> c, store |-> st, result |-> res, issued |-> sent]

\* How a handler ends after its statements e: the error wrapped with the
\* handler's message, or success with the connection details it returns.
Executed(c, op, e, msg, secret) ==
    IF e.err # NoError
    THEN Outcome(c, e.store, Failed(op, Wrap(e.err, msg)), e.sent)
    ELSE Outcome(c, e.store, Result(op, NoError, FALSE, FALSE, FALSE, secret), e.sent)

(* ------------------------- keyspace controller ------------------------ *)

errSelectKeyspace == "cannot select keyspace"

errCreateKeyspace == "cannot create keyspace"

errDropKeyspace == "cannot drop keyspace"

defaultStrategy == SimpleStrategy

defaultReplicas == 1

KeyspaceSpecs ==
    [ReplicationClass : Opt({SimpleStrategy, NetworkTopologyStrategy}),
     ReplicationFactor : Opt(Factors),
     DurableWrites : Opt(BOOLEAN)]

\* Variant: the class is kept as the store spells it.
KeyspaceObservedRaw(row) ==
    LET m == row.replication
    IN  [ReplicationClass |-> Ptr(IF "class" \in DOMAIN m THEN m["class"] ELSE <<>>),
         ReplicationFactor |->
            Ptr(IF "replication_factor" \in DOMAIN m
                THEN Atoi(m["replication_factor"]).val ELSE 0),
         DurableWrites |-> Ptr(row.durable_writes)]

\* The observed parameters Observe builds from the scanned row.
KeyspaceObserved(row) ==
    LET m == row.replication
    IN  [ReplicationClass |->
            Ptr(IF "class" \in DOMAIN m THEN TrimPrefix(m["class"], LocatorPrefix) ELSE <<>>),
         ReplicationFactor |->
            Ptr(IF "replication_factor" \in DOMAIN m
                THEN Atoi(m["replication_factor"]).val ELSE 0),
         DurableWrites |-> Ptr(row.durable_writes)]

KeyspaceUpToDate(observed, desired) ==
    /\ ~(observed.ReplicationClass = Nil \/ desired.ReplicationClass = Nil
         \/ Deref(observed.ReplicationClass) # Deref(desired.ReplicationClass))
    /\ ~(observed.ReplicationFactor = Nil \/ desired.ReplicationFactor = Nil
         \/ Deref(observed.ReplicationFactor) # Deref(desired.ReplicationFactor))
    /\ ~(observed.DurableWrites = Nil \/ desired.DurableWrites = Nil
         \/ Deref(observed.DurableWrites) # Deref(desired.DurableWrites))

\* Variant: every desired field takes the observed value.
KeyspaceLateInitOverwrite(observed, desired) ==
    [desired |-> observed, li |-> observed # desired]

\* lateInit: the desired parameters afterwards, and whether any was set.
KeyspaceLateInit(observed, desired) ==
    [desired |->
        [ReplicationClass |-> IF desired.ReplicationClass = Nil
                              THEN observed.ReplicationClass ELSE desired.ReplicationClass,
         ReplicationFactor |-> IF desired.ReplicationFactor = Nil
                               THEN observed.ReplicationFactor ELSE desired.ReplicationFactor,
         DurableWrites |-> IF desired.DurableWrites = Nil
                           THEN observed.DurableWrites ELSE desired.DurableWrites],
     li |-> \/ desired.ReplicationClass = Nil
            \/ desired.ReplicationFactor = Nil
            \/ desired.DurableWrites = Nil]

KeyspaceSelectText ==
    <<"SELECT replication, durable_writes FROM system_schema.keyspaces WHERE keyspace_name = ?">>

KeyspaceObserve(c, st, sess, reply) ==
    LET q == Query(sess, KeyspaceSelectText, <<c.name>>, reply)
    IN  IF q.err # NoError
        THEN Outcome(c, st, Failed("Observe", Wrap(q.err, errSelectKeyspace)), q.sent)
        ELSE IF q.rows = <<>>
        THEN Outcome(c, st, Failed("Observe", <<"failed to scan keyspace attributes">>), q.sent)
        ELSE LET observed == KeyspaceObserved(q.rows[1])
                 init == KeyspaceLateInit(observed, c.spec)
             IN  Outcome([c EXCEPT !.spec = init.desired], st,
                         Result("Observe", NoError, TRUE, init.li,
                                KeyspaceUpToDate(observed, init.desired), NoSecret),
                         q.sent)

\* Variant: durable_writes is always the default.
KeyspaceCreateTextDefaultWrites(c) ==
    LET params == c.spec
        strategy == IF params.ReplicationClass # Nil
                    THEN Deref(params.ReplicationClass) ELSE defaultStrategy
        replicationFactor == IF params.ReplicationFactor # Nil
                             THEN Deref(params.ReplicationFactor) ELSE defaultReplicas
    IN  <<"CREATE KEYSPACE IF NOT EXISTS ">> \o QuoteIdentifier(c.name)
        \o <<" WITH replication = {'class': '">> \o strategy
        \o <<"', 'replication_factor': ">> \o Itoa(replicationFactor)
        \o <<"} AND durable_writes = ", FormatBool(TRUE)>>

KeyspaceCreateText(c) ==
    LET params == c.spec
        strategy == IF params.ReplicationClass # Nil
                    THEN Deref(params.ReplicationClass) ELSE defaultStrategy
        replicationFactor == IF params.ReplicationFactor # Nil
                             THEN Deref(params.ReplicationFactor) ELSE defaultReplicas
        durableWrites == IF params.DurableWrites # Nil
                         THEN Deref(params.DurableWrites) ELSE TRUE
    IN  <<"CREATE KEYSPACE IF NOT EXISTS ">> \o QuoteIdentifier(c.name)
        \o <<" WITH replication = {'class': '">> \o strategy
        \o <<"', 'replication_factor': ">> \o Itoa(replicationFactor)
        \o <<"} AND durable_writes = ", FormatBool(durableWrites)>>

KeyspaceCreate(c, st, sess, accept) ==
    Executed(c, "Create", Exec(sess, st, KeyspaceCreateText(c), accept),
             errCreateKeyspace, NoSecret)

\* Variant: Update re-issues the Create statement.
KeyspaceUpdateExec(c, st, sess, accept) ==
    Executed(c, "Update", Exec(sess, st, KeyspaceCreateText(c), accept),
             errCreateKeyspace, NoSecret)

KeyspaceUpdate(c, st, sess, accept) ==
    Outcome(c, st, Result("Update", NoError, FALSE, FALSE, FALSE, NoSecret), <<>>)

\* Variant: the statement names a fixed keyspace instead of the resource's.
KeyspaceDropTextFixed(c) == <<"DROP KEYSPACE IF EXISTS ">> \o QuoteIdentifier(KeyspaceName)

KeyspaceDropText(c) == <<"DROP KEYSPACE IF EXISTS ">> \o QuoteIdentifier(c.name)

KeyspaceDelete(c, st, sess, accept) ==
    Executed(c, "Delete", Exec(sess, st, KeyspaceDropText(c), accept),
             errDropKeyspace, NoSecret)

(* --------------------------- role controller -------------------------- *)

errSelectRole == "cannot select role"

errCreateRole == "cannot create role"

errUpdateRole == "cannot update role"

errDropRole == "cannot drop role"

RoleSpecs == [SuperUser : Opt(BOOLEAN), Login : Opt(BOOLEAN)]

RoleUpToDate(observed, desired) ==
    /\ ~(observed.SuperUser = Nil \/ desired.SuperUser = Nil
         \/ Deref(observed.SuperUser) # Deref(desired.SuperUser))
    /\ ~(observed.Login = Nil \/ desired.Login = Nil
         \/ Deref(observed.Login) # Deref(desired.Login))

RoleLateInit(observed, desired) ==
    [desired |->
        [SuperUser |-> IF desired.SuperUser = Nil THEN observed.SuperUser
                       ELSE desired.SuperUser,
         Login |-> IF desired.Login = Nil THEN observed.Login ELSE desired.Login],
     li |-> desired.SuperUser = Nil \/ desired.Login = Nil]

RoleSelectText == <<"SELECT is_superuser, can_login FROM system_auth.roles WHERE role = ?">>

\* Variant: a scan that finds no row is an error.
RoleObserveScanError(c, st, sess, reply) ==
    LET q == Query(sess, RoleSelectText, <<c.name>>, reply)
    IN  IF q.err # NoError
        THEN Outcome(c, st, Failed("Observe", Wrap(q.err, errSelectRole)), q.sent)
        ELSE IF q.rows = <<>>
        THEN Outcome(c, st, Failed("Observe", <<"failed to scan role attributes">>), q.sent)
        ELSE LET observed == [SuperUser |-> Ptr(q.rows[1].is_superuser),
                              Login |-> Ptr(q.rows[1].can_login)]
                 init == RoleLateInit(observed, c.spec)
             IN  Outcome([c EXCEPT !.spec = init.desired], st,
                         Result("Observe", NoError, TRUE, init.li,
                                RoleUpToDate(observed, init.desired), NoSecret),
                         q.sent)

RoleObserve(c, st, sess, reply) ==
    LET q == Query(sess, RoleSelectText, <<c.name>>, reply)
    IN  IF q.err # NoError
        THEN Outcome(c, st, Failed("Observe", Wrap(q.err, errSelectRole)), q.sent)
        ELSE IF q.rows = <<>>
        THEN Outcome(c, st, Result("Observe", NoError, FALSE, FALSE, FALSE, NoSecret), q.sent)
        ELSE LET observed == [SuperUser |-> Ptr(q.rows[1].is_superuser),
                              Login |-> Ptr(q.rows[1].can_login)]
                 init == RoleLateInit(observed, c.spec)
             IN  Outcome([c EXCEPT !.spec = init.desired], st,
                         Result("Observe", NoError, TRUE, init.li,
                                RoleUpToDate(observed, init.desired), NoSecret),
                         q.sent)

\* The %t arguments: a nil flag prints false.
RoleFlag(p) == p # Nil /\ Deref(p)

\* Variant: the statement alters the role, password included.
RoleCreateTextAlter(c, pw) ==
    <<"ALTER ROLE ">> \o QuoteIdentifier(c.name)
    \o <<" WITH SUPERUSER = ", FormatBool(RoleFlag(c.spec.SuperUser)),
         " AND LOGIN = ", FormatBool(RoleFlag(c.spec.Login)),
         " AND PASSWORD = '">> \o pw \o <<"'">>

RoleCreateText(c, pw) ==
    <<"CREATE ROLE IF NOT EXISTS ">> \o QuoteIdentifier(c.name)
    \o <<" WITH SUPERUSER = ", FormatBool(RoleFlag(c.spec.SuperUser)),
         " AND LOGIN = ", FormatBool(RoleFlag(c.spec.Login)),
         " AND PASSWORD = '">> \o pw \o <<"'">>

\* Variant: a failed generator does not stop Create; the password is empty.
RoleCreateEmptyPassword(c, st, d, gen, accept) ==
    Executed(c, "Create",
             Exec(d.session, st, RoleCreateText(c, IF gen = Nil THEN <<>> ELSE Deref(gen)),
                  accept),
             errCreateRole,
             Ptr(GetConnectionDetails(d, c.name, IF gen = Nil THEN <<>> ELSE Deref(gen))))

\* gen is what password.Generate returns: Nil when it fails.
RoleCreate(c, st, d, gen, accept) ==
    IF gen = Nil
    THEN Outcome(c, st, Failed("Create", <<"cannot generate password">>), <<>>)
    ELSE Executed(c, "Create", Exec(d.session, st, RoleCreateText(c, Deref(gen)), accept),
                  errCreateRole, Ptr(GetConnectionDetails(d, c.name, Deref(gen))))

\* Variant: the statement also sets a password.
RoleAlterTextRotate(c) ==
    <<"ALTER ROLE ">> \o QuoteIdentifier(c.name)
    \o <<" WITH SUPERUSER = ", FormatBool(RoleFlag(c.spec.SuperUser)),
         " AND LOGIN = ", FormatBool(RoleFlag(c.spec.Login)),
         " AND PASSWORD = '", "p1", "'">>

RoleAlterText(c) ==
    <<"ALTER ROLE ">> \o QuoteIdentifier(c.name)
    \o <<" WITH SUPERUSER = ", FormatBool(RoleFlag(c.spec.SuperUser)),
         " AND LOGIN = ", FormatBool(RoleFlag(c.spec.Login))>>

RoleUpdate(c, st, sess, accept) ==
    Executed(c, "Update", Exec(sess, st, RoleAlterText(c), accept),
             errUpdateRole, NoSecret)

\* Variant: the statement names a fixed role instead of the resource's.
RoleDropTextFixed(c) == <<"DROP ROLE IF EXISTS ">> \o QuoteIdentifier(KeyspaceName)

RoleDropText(c) == <<"DROP ROLE IF EXISTS ">> \o QuoteIdentifier(c.name)

RoleDelete(c, st, sess, accept) ==
    Executed(c, "Delete", Exec(sess, st, RoleDropText(c), accept),
             errDropRole, NoSecret)

(* --------------------------- grant controller ------------------------- *)

errGrantCreate == "cannot create grant"

errGrantDelete == "cannot delete grant"

errGrantObserve == "cannot observe grant"

\* GrantPrivilege values of the enumeration, as the resource spells them.
GrantPrivileges == {<<"ALL", "_", "PERMISSIONS">>, <<"SELECT">>, <<"MODIFY">>}

GrantSpecs ==
    [Privileges : SeqsUpTo(GrantPrivileges, MaxPrivs) \ {<<>>},
     Role : {Ptr(RoleName)},
     Keyspace : {Ptr(KeyspaceName)}]

replaceUnderscoreWithSpace(privileges) ==
    [i \in 1..Len(privileges) |-> ReplaceAll(privileges[i], "_", <<" ">>)]

\* The orders in which a range over a Go map with these keys can visit them.
MapOrders(keys) ==
    {o \in [1..Cardinality(keys) -> keys] : Range(o) = keys}

\* The loop over desiredPermissions: it stops at the first one not observed.
RECURSIVE GrantCompare(_, _, _, _)
GrantCompare(order, i, observedPermissions, resourceExists) ==
    IF i > Len(order) THEN [upToDate |-> TRUE, resourceExists |-> resourceExists]
    ELSE IF order[i] \notin observedPermissions
    THEN [upToDate |-> FALSE, resourceExists |-> resourceExists]
    ELSE GrantCompare(order, i + 1, observedPermissions, TRUE)

\* Variant: only the last row counts.
ObservedPermissionsLastRow(rows) == IF rows = <<>> THEN {} ELSE rows[Len(rows)]

\* The union of the permission sets of the rows scanned.
ObservedPermissions(rows) == UNION Range(rows)

DesiredPermissions(c) == Range(replaceUnderscoreWithSpace(c.spec.Privileges))

GrantSelectText(c) ==
    <<"SELECT permissions FROM system_auth.role_permissions WHERE role = ? AND resource = 'data/">>
    \o Deref(c.spec.Keyspace) \o <<"'">>

\* Variant: Observe sends its query a second time.
GrantObserveTwice(c, st, sess, reply, order) ==
    LET q == Query(sess, GrantSelectText(c), <<Deref(c.spec.Role)>>, reply)
    IN  IF q.err # NoError
        THEN Outcome(c, st, Failed("Observe", Wrap(q.err, errGrantObserve)), q.sent)
        ELSE LET cmp == GrantCompare(order, 1, ObservedPermissions(q.rows), FALSE)
             IN  Outcome(c, st,
                         Result("Observe", NoError, cmp.resourceExists, FALSE, cmp.upToDate,
                                NoSecret),
                         q.sent \o q.sent)

GrantObserve(c, st, sess, reply, order) ==
    LET q == Query(sess, GrantSelectText(c), <<Deref(c.spec.Role)>>, reply)
    IN  IF q.err # NoError
        THEN Outcome(c, st, Failed("Observe", Wrap(q.err, errGrantObserve)), q.sent)
        ELSE LET cmp == GrantCompare(order, 1, ObservedPermissions(q.rows), FALSE)
             IN  Outcome(c, st,
                         Result("Observe", NoError, cmp.resourceExists, FALSE, cmp.upToDate,
                                NoSecret),
                         q.sent)

GrantText(c, privilege) ==
    <<"GRANT ">> \o privilege \o <<" ON KEYSPACE ">>
    \o QuoteIdentifier(Deref(c.spec.Keyspace)) \o <<" TO ">>
    \o QuoteIdentifier(Deref(c.spec.Role))

RevokeText(c, privilege) ==
    <<"REVOKE ">> \o privilege \o <<" ON KEYSPACE ">>
    \o QuoteIdentifier(Deref(c.spec.Keyspace)) \o <<" FROM ">>
    \o QuoteIdentifier(Deref(c.spec.Role))

\* The per-privilege loop: one Exec per text, in order, stopping at the first
\* error.  failAt is the position of the statement the store does not take (0: none).
RECURSIVE ExecEach(_, _, _, _, _, _)
RECURSIVE ExecRest(_, _, _, _, _, _)
ExecEach(texts, i, sess, st, sent, failAt) ==
    IF i > Len(texts) THEN [err |-> NoError, store |-> st, sent |-> sent]
    ELSE ExecRest(texts, i, sess, sent, failAt, Exec(sess, st, texts[i], i # failAt))

\* Variant: the loop goes on after a statement failed.
ExecRestContinue(texts, i, sess, sent, failAt, e) ==
    ExecEach(texts, i + 1, sess, e.store, sent \o e.sent, failAt)

\* After statement i has run with outcome e.
ExecRest(texts, i, sess, sent, failAt, e) ==
    IF e.err # NoError
    THEN [err |-> e.err, store |-> e.store, sent |-> sent \o e.sent]
    ELSE ExecEach(texts, i + 1, sess, e.store, sent \o e.sent, failAt)

\* Variant: only the first privilege gets a statement.
GrantTextsFirst(c) ==
    LET privileges == replaceUnderscoreWithSpace(c.spec.Privileges)
    IN  [i \in 1..1 |-> GrantText(c, privileges[i])]

GrantTexts(c) ==
    LET privileges == replaceUnderscoreWithSpace(c.spec.Privileges)
    IN  [i \in 1..Len(privileges) |-> GrantText(c, privileges[i])]

\* Variant: only the first privilege is revoked.
RevokeTextsFirst(c) ==
    LET privileges == replaceUnderscoreWithSpace(c.spec.Privileges)
    IN  [i \in 1..1 |-> RevokeText(c, privileges[i])]

RevokeTexts(c) ==
    LET privileges == replaceUnderscoreWithSpace(c.spec.Privileges)
    IN  [i \in 1..Len(privileges) |-> RevokeText(c, privileges[i])]

GrantCreate(c, st, sess, failAt) ==
    Executed(c, "Create", ExecEach(GrantTexts(c), 1, sess, st, <<>>, failAt),
             errGrantCreate, NoSecret)

\* Variant: the statements go out last privilege first.
GrantUpdateReversed(c, st, sess, failAt) ==
    Executed(c, "Update",
             ExecEach([i \in 1..Len(GrantTexts(c)) |-> GrantTexts(c)[Len(GrantTexts(c)) + 1 - i]],
                      1, sess, st, <<>>, failAt),
             errGrantCreate, NoSecret)

GrantUpdate(c, st, sess, failAt) ==
    Executed(c, "Update", ExecEach(GrantTexts(c), 1, sess, st, <<>>, failAt),
             errGrantCreate, NoSecret)

GrantDelete(c, st, sess, failAt) ==
    Executed(c, "Delete", ExecEach(RevokeTexts(c), 1, sess, st, <<>>, failAt),
             errGrantDelete, NoSecret)

(* ------------------------- resources and inputs ----------------------- *)

Credentials ==
    {[endpoint |-> <<"localhost">>, port |-> <<"9042">>],
     [endpoint |-> <<"db">>, port |-> <<>>]}

KeyspaceCRs == [kind : {"Keyspace"}, name : {KeyspaceName}, spec : KeyspaceSpecs]

RoleCRs == [kind : {"Role"}, name : {RoleName}, spec : RoleSpecs]

GrantCRs == [kind : {"Grant"}, name : {<<"g">>}, spec : GrantSpecs]

\* The stores in which only the objects resource c names may be present.
StoresFor(c) ==
    CASE c.kind = "Keyspace" ->
            {[EmptyStore EXCEPT !.keyspaces[c.name] = r] : r \in Opt(KeyspaceRows)}
      [] c.kind = "Role" ->
            {[EmptyStore EXCEPT !.roles[c.name] = r] : r \in Opt(RoleRows)}
      [] c.kind = "Grant" ->
            {[EmptyStore EXCEPT !.permissions[<<Deref(c.spec.Role), Deref(c.spec.Keyspace)>>] = r] :
                r \in SUBSET StorePermissions}

\* The handles Connect may have built.  Only the Role controller reads the
\* endpoint and port of its handle.
HandlesFor(c) ==
    {[session |-> TRUE, endpoint |-> k.endpoint, port |-> k.port] :
        k \in IF c.kind = "Role" THEN Credentials
               ELSE {[endpoint |-> <<"localhost">>, port |-> <<"9042">>]}}

\* What the environment decided during the last operation: whether the store
\* answered the query, which statement (if any) it did not take, and what the
\* password generator returned.
NoInput == [answer |-> TRUE, failAt |-> 0, gen |-> Nil]

QueryInput(reply) == [NoInput EXCEPT !.answer = (reply # Nil)]

ExecInputs(n) == {[NoInput EXCEPT !.failAt = k] : k \in 0..n}

NoResult == Result("None", NoError, FALSE, FALSE, FALSE, NoSecret)

Init ==
    /\ cr \in KeyspaceCRs \cup RoleCRs \cup GrantCRs
    /\ store \in StoresFor(cr)
    /\ db \in HandlesFor(cr)
    /\ input = NoInput
    /\ result = NoResult
    /\ issued = <<>>
    /\ pc = "observe"

Apply(o, in) ==
    /\ cr' = o.cr
    /\ store' = o.store
    /\ result' = o.result
    /\ issued' = o.issued
    /\ input' = in
    /\ UNCHANGED <<db, pc>>

(* ------------------------------ operations ---------------------------- *)

\* cassandra.New at Connect, which starts a pass with a handle of its own:
\* the session is nil when CreateSession fails.
Connect ==
    /\ \E s \in BOOLEAN : db' = [db EXCEPT !.session = s]
    /\ input' = NoInput
    /\ result' = NoResult
    /\ issued' = <<>>
    /\ UNCHANGED <<cr, store, pc>>

\* Another client of the store changes the objects the resource names, after
\* an observation has late-initialized the desired state from them.
ExternalChange ==
    /\ result.op = "Observe"
    /\ result.lateInit
    /\ store' \in StoresFor(cr)
    /\ input' = NoInput
    /\ result' = NoResult
    /\ issued' = <<>>
    /\ UNCHANGED <<cr, db, pc>>

ObserveKeyspace ==
    /\ cr.kind = "Keyspace"
    /\ \E reply \in Replies(store, KeyspaceSelectText, <<cr.name>>) :
          Apply(KeyspaceObserve(cr, store, db.session, reply), QueryInput(reply))

CreateKeyspace ==
    /\ cr.kind = "Keyspace"
    /\ \E in \in ExecInputs(1) : Apply(KeyspaceCreate(cr, store, db.session, in.failAt # 1), in)

UpdateKeyspace ==
    /\ cr.kind = "Keyspace"
    /\ Apply(KeyspaceUpdate(cr, store, db.session, TRUE), NoInput)

DeleteKeyspace ==
    /\ cr.kind = "Keyspace"
    /\ \E in \in ExecInputs(1) : Apply(KeyspaceDelete(cr, store, db.session, in.failAt # 1), in)

ObserveRole ==
    /\ cr.kind = "Role"
    /\ \E reply \in Replies(store, RoleSelectText, <<cr.name>>) :
          Apply(RoleObserve(cr, store, db.session, reply), QueryInput(reply))

CreateRole ==
    /\ cr.kind = "Role"
    /\ \E k \in ExecInputs(1), g \in Opt(Passwords) :
          LET in == [k EXCEPT !.gen = g]
          IN  Apply(RoleCreate(cr, store, db, in.gen, in.failAt # 1), in)

UpdateRole ==
    /\ cr.kind = "Role"
    /\ \E in \in ExecInputs(1) : Apply(RoleUpdate(cr, store, db.session, in.failAt # 1), in)

DeleteRole ==
    /\ cr.kind = "Role"
    /\ \E in \in ExecInputs(1) : Apply(RoleDelete(cr, store, db.session, in.failAt # 1), in)

ObserveGrant ==
    /\ cr.kind = "Grant"
    /\ \E reply \in Replies(store, GrantSelectText(cr), <<Deref(cr.spec.Role)>>),
          order \in MapOrders(DesiredPermissions(cr)) :
          Apply(GrantObserve(cr, store, db.session, reply, order), QueryInput(reply))

CreateGrant ==
    /\ cr.kind = "Grant"
    /\ \E in \in ExecInputs(Len(cr.spec.Privileges)) :
          Apply(GrantCreate(cr, store, db.session, in.failAt), in)

UpdateGrant ==
    /\ cr.kind = "Grant"
    /\ \E in \in ExecInputs(Len(cr.spec.Privileges)) :
          Apply(GrantUpdate(cr, store, db.session, in.failAt), in)

DeleteGrant ==
    /\ cr.kind = "Grant"
    /\ \E in \in ExecInputs(Len(cr.spec.Privileges)) :
          Apply(GrantDelete(cr, store, db.session, in.failAt), in)

Next ==
    \/ Connect
    \/ ExternalChange
    \/ ObserveKeyspace
    \/ CreateKeyspace
    \/ UpdateKeyspace
    \/ DeleteKeyspace
    \/ ObserveRole
    \/ CreateRole
    \/ UpdateRole
    \/ DeleteRole
    \/ ObserveGrant
    \/ CreateGrant
    \/ UpdateGrant
    \/ DeleteGrant

Spec == Init /\ [][Next]_vars

(* --------------------------- reconciliation pass ---------------------- *)

\* The outcomes Observe of the resource's controller can have on a connected
\* handle when the store answers the query.
Observations(c, st) ==
    CASE c.kind = "Keyspace" ->
            {KeyspaceObserve(c, st, TRUE, Ptr(r)) :
                r \in StoreReplies(st, KeyspaceSelectText, <<c.name>>)}
      [] c.kind = "Role" ->
            {RoleObserve(c, st, TRUE, Ptr(r)) :
                r \in StoreReplies(st, RoleSelectText, <<c.name>>)}
      [] c.kind = "Grant" ->
            {GrantObserve(c, st, TRUE, Ptr(r), order) :
                r \in StoreReplies(st, GrantSelectText(c), <<Deref(c.spec.Role)>>),
                order \in MapOrders(DesiredPermissions(c))}

\* Create and Update of the resource's controller when the store takes every
\* statement (and the password generator works).
Creations(c, st, d) ==
    CASE c.kind = "Keyspace" -> {KeyspaceCreate(c, st, d.session, TRUE)}
      [] c.kind = "Role" -> {RoleCreate(c, st, d, Ptr(pw), TRUE) : pw \in Passwords}
      [] c.kind = "Grant" -> {GrantCreate(c, st, d.session, 0)}

Updates(c, st, d) ==
    CASE c.kind = "Keyspace" -> {KeyspaceUpdate(c, st, d.session, TRUE)}
      [] c.kind = "Role" -> {RoleUpdate(c, st, d.session, TRUE)}
      [] c.kind = "Grant" -> {GrantUpdate(c, st, d.session, 0)}

PassApply(o, next) ==
    /\ cr' = o.cr
    /\ store' = o.store
    /\ result' = o.result
    /\ issued' = o.issued
    /\ pc' = next
    /\ UNCHANGED <<db, input>>

\* The managed reconciler's pass: Observe, then Create when the resource does
\* not exist, Update when it exists and is not up to date; an error ends the
\* pass, and the next pass starts with Observe.
PassObserve ==
    /\ pc = "observe"
    /\ \E o \in Observations(cr, store) :
          PassApply(o, IF o.result.err # NoError THEN "observe"
                       ELSE IF ~o.result.exists THEN "create"
                       ELSE IF ~o.result.upToDate THEN "update"
                       ELSE "observe")

PassCreate ==
    /\ pc = "create"
    /\ \E o \in Creations(cr, store, db) : PassApply(o, "observe")

PassUpdate ==
    /\ pc = "update"
    /\ \E o \in Updates(cr, store, db) : PassApply(o, "observe")

PassNext == PassObserve \/ PassCreate \/ PassUpdate

\* Passes keep being scheduled: the reconciler requeues every resource.
FairSpec == Init /\ [][PassNext]_vars /\ WF_vars(PassNext)

(* ----------------------- passes of other resources -------------------- *)

\* The keyspace and the role whose objects resource c names (Nil: none).
KeyspaceOf(c) ==
    CASE c.kind = "Keyspace" -> Ptr(c.name)
      [] c.kind = "Role" -> Nil
      [] c.kind = "Grant" -> c.spec.Keyspace

RoleOf(c) ==
    CASE c.kind = "Keyspace" -> Nil
      [] c.kind = "Role" -> Ptr(c.name)
      [] c.kind = "Grant" -> c.spec.Role

\* Resources reconciled by other passes of the same process that name none
\* of the objects of c: a keyspace and a role of another name, and grants
\* for another (role, keyspace) pair, which may share one of the two with a
\* grant c.
Peers(c) ==
    {p \in [kind : {"Keyspace"}, name : {RoleName},
            spec : {[ReplicationClass |-> Nil, ReplicationFactor |-> Nil,
                     DurableWrites |-> Nil]}] :
        Ptr(p.name) # KeyspaceOf(c)}
    \cup {p \in [kind : {"Role"}, name : {KeyspaceName},
                 spec : {[SuperUser |-> Nil, Login |-> Nil]}] :
            Ptr(p.name) # RoleOf(c)}
    \cup {p \in [kind : {"Grant"}, name : {<<"h">>},
                 spec : [Privileges : {<<<<"SELECT">>>>},
                         Role : {Ptr(n) : n \in Names},
                         Keyspace : {Ptr(n) : n \in Names}]] :
            /\ p.spec.Role = p.spec.Keyspace
            /\ c.kind = "Keyspace" => p.spec.Keyspace # Ptr(c.name)
            /\ c.kind = "Role" => p.spec.Role # Ptr(c.name)
            /\ c.kind = "Grant" =>
                  <<p.spec.Role, p.spec.Keyspace>> # <<c.spec.Role, c.spec.Keyspace>>}

\* The statements the handlers of resource p send with Exec.
ExecTexts(p) ==
    CASE p.kind = "Keyspace" -> {KeyspaceCreateText(p), KeyspaceDropText(p)}
      [] p.kind = "Role" ->
            {RoleCreateText(p, <<"p1">>), RoleAlterText(p), RoleDropText(p)}
      [] p.kind = "Grant" -> Range(GrantTexts(p)) \cup Range(RevokeTexts(p))

\* A pass for another resource gets one of its statements to the store,
\* between two operations of the pass for cr or between two passes.
PeerStatement ==
    /\ \E p \in Peers(cr) : \E t \in ExecTexts(p) :
          /\ Exec(TRUE, store, t, TRUE).err = NoError
          /\ store' = Exec(TRUE, store, t, TRUE).store
    /\ UNCHANGED <<cr, db, input, result, issued, pc>>

\* Two passes at a time, from a store that holds nothing yet.  The grants
\* are those of two privileges, one of them the privilege the other passes
\* grant and revoke.
PeerInit ==
    /\ cr \in KeyspaceCRs \cup RoleCRs
              \cup {c \in GrantCRs :
                      Range(c.spec.Privileges) \subseteq {<<"SELECT">>, <<"MODIFY">>}}
    /\ store = EmptyStore
    /\ db \in HandlesFor(cr)
    /\ input = NoInput
    /\ result = NoResult
    /\ issued = <<>>
    /\ pc = "observe"

PeerNext ==
    \/ PeerStatement
    \/ ObserveKeyspace
    \/ CreateKeyspace
    \/ UpdateKeyspace
    \/ DeleteKeyspace
    \/ ObserveRole
    \/ CreateRole
    \/ UpdateRole
    \/ DeleteRole
    \/ ObserveGrant
    \/ CreateGrant
    \/ UpdateGrant
    \/ DeleteGrant

PeerSpec == PeerInit /\ [][PeerNext]_vars

(* --------------------------- sessions of passes ----------------------- *)

\* connector.Connect at the start of a pass, with the sessions the process
\* holds open counted: cassandra.New opens one for the handle of the pass.
PassConnect ==
    /\ pc = "observe"
    /\ result.op # "Connect"
    /\ db.open < MaxSessions
    /\ db' = [db EXCEPT !.session = TRUE, !.open = @ + 1]
    /\ result' = [NoResult EXCEPT !.op = "Connect"]
    /\ issued' = <<>>
    /\ UNCHANGED <<cr, store, input, pc>>

\* No pass has run yet: no handle, no session open.
SessionInit ==
    /\ cr \in KeyspaceCRs \cup RoleCRs \cup GrantCRs
    /\ store \in StoresFor(cr)
    /\ db \in {[session |-> FALSE, endpoint |-> h.endpoint, port |-> h.port, open |-> 0] :
                 h \in HandlesFor(cr)}
    /\ input = NoInput
    /\ result = NoResult
    /\ issued = <<>>
    /\ pc = "observe"

\* Pass after pass: Connect, Observe, then Create or Update as Observe says.
\* No handler and no step of a pass calls CassandraDB.Close.
SessionNext ==
    \/ PassConnect
    \/ result.op = "Connect" /\ PassObserve
    \/ PassCreate
    \/ PassUpdate

SessionSpec == SessionInit /\ [][SessionNext]_vars

(* ------------------------- unresolved references ---------------------- *)

\* Grants whose role or keyspace reference may not have been resolved yet:
\* both fields are optional pointers.
ReferenceCRs ==
    [kind : {"Grant"}, name : {<<"g">>},
     spec : [Privileges : SeqsUpTo(GrantPrivileges, MaxPrivs) \ {<<>>},
             Role : Opt({RoleName}),
             Keyspace : Opt({KeyspaceName})]]

Unresolved(c) == c.spec.Role = Nil \/ c.spec.Keyspace = Nil

\* What Go makes of *p for a nil p.
errNilDereference ==
    <<"panic: runtime error: invalid memory address or nil pointer dereference">>

\* role := *cr.Spec.ForProvider.Role; keyspace := *cr.Spec.ForProvider.Keyspace
\* at the top of every Grant handler: with a nil pointer the handler panics
\* before it returns anything.  The reconciler's runtime either recovers the
\* panic or lets it end the process; which one is not decided in this code.
DereferenceNil ==
    /\ pc = "observe"
    /\ cr.kind = "Grant"
    /\ Unresolved(cr)
    /\ \E op \in {"Observe", "Create", "Update", "Delete"} :
          result' = Failed(op, errNilDereference)
    /\ pc' \in {"observe", "aborted"}
    /\ issued' = <<>>
    /\ UNCHANGED <<cr, store, db, input>>

ReferenceInit ==
    /\ cr \in ReferenceCRs
    /\ store \in IF Unresolved(cr) THEN {EmptyStore} ELSE StoresFor(cr)
    /\ db \in HandlesFor(cr)
    /\ input = NoInput
    /\ result = NoResult
    /\ issued = <<>>
    /\ pc = "observe"

\* The four Grant handlers, on resolved and unresolved grants.
ReferenceNext ==
    \/ DereferenceNil
    \/ ~Unresolved(cr) /\ ObserveGrant
    \/ ~Unresolved(cr) /\ CreateGrant
    \/ ~Unresolved(cr) /\ UpdateGrant
    \/ ~Unresolved(cr) /\ DeleteGrant

ReferenceSpec == ReferenceInit /\ [][ReferenceNext]_vars

(* ------------------------- quoting of any name ----------------------- *)

\* Names of every shape: empty, with and without double quotes.
NameChars == {"a", "b", "\""}

IdentifierNames == SeqsUpTo(NameChars, MaxNameLen)

\* Keyspace and role resources of any name, on a store that holds nothing.
QuoteInit ==
    /\ cr \in [kind : {"Keyspace"}, name : IdentifierNames, spec : KeyspaceSpecs]
              \cup [kind : {"Role"}, name : IdentifierNames, spec : RoleSpecs]
    /\ store = EmptyStore
    /\ db \in HandlesFor(cr)
    /\ input = NoInput
    /\ result = NoResult
    /\ issued = <<>>
    /\ pc = "observe"

\* The operations that put the name into the text of a statement.
QuoteNext ==
    \/ CreateKeyspace
    \/ DeleteKeyspace
    \/ CreateRole
    \/ UpdateRole
    \/ DeleteRole

QuoteSpec == QuoteInit /\ [][QuoteNext]_vars

(* ------------------------------- claims ------------------------------- *)

AllPresent(spec) == \A f \in DOMAIN spec : spec[f] # Nil

Converged == result.op = "Observe" /\ result.err = NoError /\ result.upToDate

\* C1. Convergence: with a store that takes every statement, repeated passes
\* reach an Observe that reports up-to-date.  In the form a finite run
\* refutes: no pass ends, not up to date, in a state that every later pass
\* only repeats.
C1_Convergence ==
    ~(/\ pc = "observe"
      /\ result.op = "Observe"
      /\ ~Converged
      /\ \A o \in Observations(cr, store) :
            o.cr = cr /\ o.store = store /\ o.result = result /\ o.issued = issued)

\* C2. Keyspace Observe whose query succeeds and returns no row reports no
\* error and that the resource does not exist.
C2_KeyspaceAbsentIsNotAnError ==
    (/\ cr.kind = "Keyspace"
     /\ result.op = "Observe"
     /\ issued # <<>>
     /\ input.answer
     /\ store.keyspaces[cr.name] = NoRow)
    => (result.err = NoError /\ ~result.exists)

GrantKey == <<Deref(cr.spec.Role), Deref(cr.spec.Keyspace)>>

\* The desired privileges as the store spells them.
NormalizedDesired == {ReplaceAll(p, "_", <<" ">>) : p \in Range(cr.spec.Privileges)}

GrantObserved == cr.kind = "Grant" /\ result.op = "Observe" /\ result.err = NoError

\* C3. Grant Observe reports exists=true iff at least one normalized desired
\* privilege is in the observed set, on every execution.
C3_GrantExistsIffAnyGranted ==
    (GrantObserved /\ input.answer)
    => (result.exists <=> (NormalizedDesired \cap store.permissions[GrantKey] # {}))

\* C4. Grant Observe reports upToDate=true iff every normalized desired
\* privilege is in the union of the rows returned; extra observed privileges
\* never make it false.
C4_GrantUpToDateIffSubset ==
    GrantObserved
    => (result.upToDate <=>
            NormalizedDesired \subseteq
                (IF input.answer THEN store.permissions[GrantKey] ELSE {}))

C4_Witness ==
    /\ GrantObserved
    /\ input.answer
    /\ result.upToDate
    /\ <<"ALL", " ", "PERMISSIONS">> \in NormalizedDesired
    /\ store.permissions[GrantKey] \ NormalizedDesired # {}
    /\ Cardinality(store.permissions[GrantKey]) >= 2

ObservationResults == {o.result : o \in Observations(cr, store)}

\* C5. Create idempotence: a Create that follows a successful Create leaves
\* the store as it was, and the Observe that follows has the same outcomes.
C5_CreateIdempotent ==
    [][(result.op = "Create" /\ result.err = NoError
        /\ (CreateKeyspace \/ CreateRole \/ CreateGrant))
       => (store' = store /\ cr' = cr /\ ObservationResults' = ObservationResults)]_vars

\* A Create that succeeded on a role the store already held.
C5_Witness ==
    /\ cr.kind = "Role"
    /\ result.op = "Create"
    /\ result.err = NoError
    /\ Deref(store.roles[cr.name]).password # Deref(result.secret).password

\* C6. Late-init (keyspace and role) writes only absent desired fields: no
\* step changes a desired field that is present, and an Observe of a desired
\* state with no absent field changes nothing and reports no late-init.
C6_LateInitMonotone ==
    [][cr.kind \in {"Keyspace", "Role"}
       => /\ \A f \in DOMAIN cr.spec : cr.spec[f] # Nil => cr'.spec[f] = cr.spec[f]
          /\ ((ObserveKeyspace \/ ObserveRole) /\ AllPresent(cr.spec))
             => (cr' = cr /\ ~result'.lateInit)]_vars

\* A factor of 0 comes from an earlier late-init only; the store now reports
\* another factor and the Observe has left the desired one alone.
C6_Witness ==
    /\ cr.kind = "Keyspace"
    /\ result.op = "Observe"
    /\ result.err = NoError
    /\ ~result.lateInit
    /\ cr.spec.ReplicationFactor = Ptr(0)
    /\ store.keyspaces[cr.name] # NoRow
    /\ "replication_factor" \in DOMAIN Deref(store.keyspaces[cr.name]).replication
    /\ Deref(store.keyspaces[cr.name]).replication["replication_factor"] = Itoa(MaxFactor)

KeyspaceCreated == cr.kind = "Keyspace" /\ result.op = "Create" /\ db.session

\* C7. Keyspace Create issues exactly one statement, CREATE KEYSPACE IF NOT
\* EXISTS <quoted ExternalName> ..., that carries each desired value that is
\* present and the default (SimpleStrategy, 1, true) only for an absent one.
C7_KeyspaceCreateStatement ==
    KeyspaceCreated
    => /\ Len(issued) = 1
       /\ issued[1].args = <<>>
       /\ LET text == issued[1].text
              q == QuoteIdentifier(cr.name)
              p == ParseStatement(text)
              d == cr.spec
          IN  /\ text[1] = "CREATE KEYSPACE IF NOT EXISTS "
              /\ SubSeq(text, 2, 1 + Len(q)) = q
              /\ p.verb = "CREATE KEYSPACE"
              /\ p.name = cr.name
              /\ p.class = (IF d.ReplicationClass # Nil THEN Deref(d.ReplicationClass)
                            ELSE <<"SimpleStrategy">>)
              /\ Atoi(p.factor) =
                    [val |-> IF d.ReplicationFactor # Nil THEN Deref(d.ReplicationFactor)
                             ELSE 1,
                     ok |-> TRUE]
              /\ p.durable_writes = (IF d.DurableWrites # Nil THEN Deref(d.DurableWrites)
                                     ELSE TRUE)

C7_Witness ==
    /\ KeyspaceCreated
    /\ result.err = NoError
    /\ cr.spec.DurableWrites = Ptr(FALSE)
    /\ cr.spec.ReplicationClass = Nil
    /\ cr.spec.ReplicationFactor = Ptr(MaxFactor)

\* The row the store holds when it ran the statement on no keyspace.
CreatedRow(text) ==
    LET p == ParseStatement(text)
    IN  [replication |-> ReplicationMap(Ptr(LocatorPrefix \o p.class), Ptr(p.factor)),
         durable_writes |-> p.durable_writes]

\* C8. After a Create of a fully specified keyspace, when the store returns
\* the row matching what was created, the next Observe reports exists and
\* up-to-date with nothing late-initialized.
C8_CreateThenObserve ==
    [][(/\ KeyspaceCreated
        /\ result.err = NoError
        /\ AllPresent(cr.spec)
        /\ store.keyspaces[cr.name] = Ptr(CreatedRow(issued[1].text))
        /\ ObserveKeyspace
        /\ input'.answer)
       => (/\ result'.err = NoError
           /\ result'.exists
           /\ result'.upToDate
           /\ ~result'.lateInit
           /\ cr' = cr)]_vars

C8_Witness ==
    /\ cr.kind = "Keyspace"
    /\ Converged
    /\ ~result.lateInit
    /\ cr.spec = [ReplicationClass |-> Ptr(NetworkTopologyStrategy),
                  ReplicationFactor |-> Ptr(MaxFactor),
                  DurableWrites |-> Ptr(TRUE)]
    /\ store.keyspaces[cr.name] =
          Ptr([replication |->
                  ReplicationMap(Ptr(LocatorPrefix \o NetworkTopologyStrategy),
                                 Ptr(Itoa(MaxFactor))),
               durable_writes |-> TRUE])

\* C9. Keyspace Update returns success, issues no statement and leaves the
\* store and the desired state unchanged, also on a handle with no session.
C9_KeyspaceUpdateNoEffect ==
    [][UpdateKeyspace
       => (/\ result'.op = "Update"
           /\ result'.err = NoError
           /\ issued' = <<>>
           /\ store' = store
           /\ cr' = cr)]_vars

C9_Witness ==
    /\ cr.kind = "Keyspace"
    /\ result.op = "Update"
    /\ result.err = NoError
    /\ ~db.session
    /\ store.keyspaces[cr.name] # NoRow

RoleCreated == cr.kind = "Role" /\ result.op = "Create"

\* C10. Role Create that succeeds returns a secret with the ExternalName as
\* username, the password generated in this call and embedded in the issued
\* statement, and the handle's endpoint and port; when the statement fails it
\* returns an error and no secret.
C10_RoleCreateSecret ==
    RoleCreated
    => /\ result.err = NoError
          => /\ input.gen # Nil
             /\ result.secret =
                   Ptr([username |-> cr.name, password |-> Deref(input.gen),
                        endpoint |-> db.endpoint, port |-> db.port])
             /\ Len(issued) = 1
             /\ ParseStatement(issued[1].text).verb = "CREATE ROLE"
             /\ ParseStatement(issued[1].text).password = input.gen
       /\ (input.gen # Nil /\ (input.failAt = 1 \/ ~db.session))
          => (result.err # NoError /\ result.secret = NoSecret)

C10_Witness ==
    /\ RoleCreated
    /\ result.err = NoError
    /\ result.secret # NoSecret
    /\ Deref(result.secret).port = <<>>
    /\ Deref(result.secret).password = <<"p2">>

\* C11. Role Create whose password generation fails returns an error, issues
\* no statement, returns no secret and leaves the store unchanged.
C11_PasswordFailureAborts ==
    [][(cr.kind = "Role" /\ CreateRole /\ input'.gen = Nil)
       => (/\ result'.op = "Create"
           /\ result'.err # NoError
           /\ issued' = <<>>
           /\ result'.secret = NoSecret
           /\ store' = store
           /\ cr' = cr)]_vars

\* The generator failed on a live session, for a role the store does not
\* hold and would have taken.
C11_Witness ==
    /\ RoleCreated
    /\ input.gen = Nil
    /\ input.failAt = 0
    /\ db.session
    /\ result.err # NoError
    /\ store.roles[cr.name] = NoRow

\* C12. Role Observe whose query succeeds and returns no row reports no
\* error, exists=false, upToDate=false, and late-initializes nothing.
C12_RoleAbsent ==
    [][(/\ cr.kind = "Role"
        /\ db.session
        /\ store.roles[cr.name] = NoRow
        /\ ObserveRole
        /\ input'.answer)
       => (/\ result'.op = "Observe"
           /\ result'.err = NoError
           /\ ~result'.exists
           /\ ~result'.upToDate
           /\ ~result'.lateInit
           /\ cr' = cr)]_vars

C12_Witness ==
    /\ cr.kind = "Role"
    /\ result.op = "Observe"
    /\ result.err = NoError
    /\ ~result.exists
    /\ issued # <<>>
    /\ input.answer
    /\ store.roles[cr.name] = NoRow
    /\ cr.spec.SuperUser = Nil
    /\ cr.spec.Login = Ptr(TRUE)

\* C13. Role Update issues exactly one statement, ALTER ROLE <quoted
\* ExternalName> WITH SUPERUSER = <bool> AND LOGIN = <bool>, carrying the
\* desired booleans and no password; no Update changes the password the store
\* holds for the role, and Update returns no secret.
C13_RoleUpdateKeepsPassword ==
    [][(cr.kind = "Role" /\ UpdateRole)
       => (/\ result'.op = "Update"
           /\ result'.secret = NoSecret
           /\ db.session
              => /\ Len(issued') = 1
                 /\ issued'[1].args = <<>>
                 /\ issued'[1].text[1] = "ALTER ROLE "
                 /\ SubSeq(issued'[1].text, 2, 1 + Len(QuoteIdentifier(cr.name)))
                       = QuoteIdentifier(cr.name)
                 /\ Len(issued'[1].text) = 5 + Len(QuoteIdentifier(cr.name))
                 /\ ParseStatement(issued'[1].text) =
                       [verb |-> "ALTER ROLE", name |-> cr.name,
                        is_superuser |-> (cr.spec.SuperUser = Ptr(TRUE)),
                        can_login |-> (cr.spec.Login = Ptr(TRUE)),
                        password |-> Nil]
           /\ (store.roles[cr.name] = NoRow) = (store'.roles[cr.name] = NoRow)
           /\ store.roles[cr.name] # NoRow
              => Deref(store'.roles[cr.name]).password
                   = Deref(store.roles[cr.name]).password)]_vars

\* An Update the store ran: the role has the desired flags and still the
\* second password.
C13_Witness ==
    /\ cr.kind = "Role"
    /\ result.op = "Update"
    /\ result.err = NoError
    /\ Len(issued) = 1
    /\ cr.spec.SuperUser = Ptr(TRUE)
    /\ store.roles[cr.name] # NoRow
    /\ Deref(store.roles[cr.name]).is_superuser
    /\ Deref(store.roles[cr.name]).password = <<"p2">>

\* The normalized privileges at positions 1..m of the desired list.
NormalizedUpTo(m) == {ReplaceAll(cr.spec.Privileges[i], "_", <<" ">>) : i \in 1..m}

GrantLabels == {"cannot create grant", "cannot delete grant"}

\* C14. Grant Create, Update and Delete issue one statement per desired
\* privilege in list order; when the statement for the k-th fails the
\* operation returns a wrapped error, issues nothing for a later privilege,
\* and what the statements for 1..k-1 did stays in the store.
C14_GrantLoopAbortsAtFirstFailure ==
    [][(/\ cr.kind = "Grant"
        /\ db.session
        /\ result'.op \in {"Create", "Update", "Delete"}
        /\ (CreateGrant \/ UpdateGrant \/ DeleteGrant))
       => LET k == input'.failAt
              n == Len(cr.spec.Privileges)
              sent == IF k = 0 THEN n ELSE k
              done == NormalizedUpTo(IF k = 0 THEN n ELSE k - 1)
              revoke == result'.op = "Delete"
          IN  /\ Len(issued') = sent
              /\ \A i \in 1..sent :
                    /\ issued'[i].args = <<>>
                    /\ ParseStatement(issued'[i].text) =
                          [verb |-> IF revoke THEN "REVOKE" ELSE "GRANT",
                           permission |-> ReplaceAll(cr.spec.Privileges[i], "_", <<" ">>),
                           keyspace |-> Deref(cr.spec.Keyspace),
                           role |-> Deref(cr.spec.Role)]
              /\ (k = 0) = (result'.err = NoError)
              /\ k # 0 => /\ result'.err[1] \in GrantLabels
                          /\ SubSeq(result'.err, 3, Len(result'.err))
                                = <<"failed to execute query: ", "store error">>
              /\ store'.permissions[GrantKey] =
                    (IF revoke THEN store.permissions[GrantKey] \ done
                     ELSE store.permissions[GrantKey] \cup done)
              /\ \A key \in DOMAIN store.permissions \ {GrantKey} :
                    store'.permissions[key] = store.permissions[key]]_vars

\* The statement for the second privilege failed: the first one is granted,
\* the second is not.
C14_Witness ==
    /\ cr.kind = "Grant"
    /\ result.op = "Create"
    /\ result.err # NoError
    /\ input.failAt = 2
    /\ Len(issued) = 2
    /\ cr.spec.Privileges = <<<<"SELECT">>, <<"MODIFY">>>>
    /\ store.permissions[GrantKey] = {<<"SELECT">>}

PartlyGranted ==
    /\ NormalizedDesired \cap store.permissions[GrantKey] # {}
    /\ ~(NormalizedDesired \subseteq store.permissions[GrantKey])

GrantChanged == cr.kind = "Grant" /\ result.op \in {"Create", "Update"}

\* C15. Grant resumability: the Observe after a Create or Update that
\* stopped part-way reports upToDate=false; a Create or Update whose
\* statements the store all takes leaves every desired privilege granted; and
\* the Observe after it reports exists=true and upToDate=true.
C15_GrantResumes ==
    [][cr.kind = "Grant"
       => /\ (/\ GrantChanged
              /\ result.err # NoError
              /\ PartlyGranted
              /\ result'.op = "Observe"
              /\ ObserveGrant)
             => ~result'.upToDate
          /\ (/\ db.session
              /\ input'.failAt = 0
              /\ result'.op \in {"Create", "Update"}
              /\ (CreateGrant \/ UpdateGrant))
             => (result'.err = NoError
                 /\ NormalizedDesired \subseteq store'.permissions[GrantKey])
          /\ (/\ GrantChanged
              /\ result.err = NoError
              /\ input'.answer
              /\ result'.op = "Observe"
              /\ ObserveGrant)
             => (result'.err = NoError /\ result'.exists /\ result'.upToDate)]_vars

\* An Update that stopped at its second statement, with the first, ALL
\* PERMISSIONS, granted.
C15_Witness ==
    /\ cr.kind = "Grant"
    /\ result.op = "Update"
    /\ result.err # NoError
    /\ input.failAt = 2
    /\ PartlyGranted
    /\ cr.spec.Privileges[1] = <<"ALL", "_", "PERMISSIONS">>
    /\ <<"ALL", " ", "PERMISSIONS">> \in store.permissions[GrantKey]

AnyDelete == DeleteKeyspace \/ DeleteRole \/ DeleteGrant

AnyObserve == ObserveKeyspace \/ ObserveRole \/ ObserveGrant

Deleted == result.op = "Delete" /\ result.err = NoError

\* What the store holds of the resource: nothing, for a resource that is absent.
Absent ==
    CASE cr.kind = "Keyspace" -> store.keyspaces[cr.name] = NoRow
      [] cr.kind = "Role" -> store.roles[cr.name] = NoRow
      [] cr.kind = "Grant" -> NormalizedDesired \cap store.permissions[GrantKey] = {}

\* C16. Delete idempotence, each kind: Delete succeeds when the store takes
\* its statements, also for a resource that is absent; a Delete after a
\* successful Delete leaves the store as it was; and the Observe after a
\* successful Delete does not report the resource as existing.
C16_DeleteIdempotent ==
    [][/\ (db.session /\ input'.failAt = 0 /\ result'.op = "Delete" /\ AnyDelete)
          => (result'.err = NoError /\ Absent' /\ (Absent => store' = store))
       /\ (Deleted /\ result'.op = "Delete" /\ AnyDelete) => store' = store
       /\ (Deleted /\ result'.op = "Observe" /\ AnyObserve) => ~result'.exists]_vars

\* A Delete of a grant that left a privilege the resource does not name.
C16_Witness ==
    /\ cr.kind = "Grant"
    /\ Deleted
    /\ Len(issued) = 2
    /\ store.permissions[GrantKey] = {<<"ALL", " ", "PERMISSIONS">>}
    /\ cr.spec.Privileges = <<<<"MODIFY">>, <<"SELECT">>>>

\* The label a statement failure gets in operation op of the controller of c.
FailureLabel(c, st, op) ==
    LET o == CASE c.kind = "Keyspace" /\ op = "Create" -> KeyspaceCreate(c, st, TRUE, FALSE)
               [] c.kind = "Keyspace" /\ op = "Update" -> KeyspaceUpdate(c, st, TRUE, FALSE)
               [] c.kind = "Keyspace" /\ op = "Delete" -> KeyspaceDelete(c, st, TRUE, FALSE)
               [] c.kind = "Role" /\ op = "Create" ->
                     RoleCreate(c, st, [session |-> TRUE, endpoint |-> <<>>, port |-> <<>>],
                                Ptr(<<"p1">>), FALSE)
               [] c.kind = "Role" /\ op = "Update" -> RoleUpdate(c, st, TRUE, FALSE)
               [] c.kind = "Role" /\ op = "Delete" -> RoleDelete(c, st, TRUE, FALSE)
               [] c.kind = "Grant" /\ op = "Create" -> GrantCreate(c, st, TRUE, 1)
               [] c.kind = "Grant" /\ op = "Update" -> GrantUpdate(c, st, TRUE, 1)
               [] c.kind = "Grant" /\ op = "Delete" -> GrantDelete(c, st, TRUE, 1)
    IN  IF o.result.err = NoError THEN "" ELSE o.result.err[1]

\* C17. Error labelling: the error of a statement that failed carries a label
\* of its kind and operation, one that no other operation of the kind gives
\* to a failure.
C17_ErrorLabelling ==
    (/\ result.op \in {"Create", "Update", "Delete"}
     /\ result.err # NoError
     /\ issued # <<>>)
    => /\ Len(result.err) > 2
       /\ result.err[2] = ": "
       /\ \A op \in {"Create", "Update", "Delete"} \ {result.op} :
             result.err[1] # FailureLabel(cr, store, op)

\* The names the resource supplies to its statements.
SuppliedNames ==
    IF cr.kind = "Grant" THEN {Deref(cr.spec.Role), Deref(cr.spec.Keyspace)} ELSE {cr.name}

\* name stands in text at position i.
OccursAt(text, name, i) ==
    i + Len(name) - 1 <= Len(text) /\ SubSeq(text, i, i + Len(name) - 1) = name

\* name stands in text at i outside every quoted identifier of that name.
UnquotedAt(text, name, i) ==
    /\ OccursAt(text, name, i)
    /\ ~\E j \in 1..Len(text) :
          /\ OccursAt(text, QuoteIdentifier(name), j)
          /\ j < i
          /\ i + Len(name) <= j + Len(QuoteIdentifier(name)) - 1

\* C18. In every statement issued, an externally supplied name is a bound
\* parameter or stands in the text through QuoteIdentifier; no name is put
\* into the text unquoted.
C18_NamesQuotedOrBound ==
    \A k \in 1..Len(issued) : \A name \in SuppliedNames :
        /\ \A i \in 1..Len(issued[k].text) : ~UnquotedAt(issued[k].text, name, i)
        /\ \/ name \in Range(issued[k].args)
           \/ \E j \in 1..Len(issued[k].text) :
                 OccursAt(issued[k].text, QuoteIdentifier(name), j)

\* C19. Quoting round trip: QuoteIdentifier(name) is the name with each
\* double quote doubled inside one pair of double quotes; reading it back by
\* the inverse rule gives the name, also out of an issued statement; and no
\* other name has the same quoted form.
C19_QuoteRoundTrip ==
    LET q == QuoteIdentifier(cr.name)
        quotes == {i \in DOMAIN cr.name : cr.name[i] = "\""}
    IN  /\ Len(q) = Len(cr.name) + Cardinality(quotes) + 2
        /\ q[1] = "\""
        /\ q[Len(q)] = "\""
        /\ ReadIdentifier(q, 1) = [name |-> cr.name, next |-> Len(q) + 1, ok |-> TRUE]
        /\ \A other \in IdentifierNames \ {cr.name} : QuoteIdentifier(other) # q
        /\ issued # <<>>
           => /\ SubSeq(issued[1].text, 2, 1 + Len(q)) = q
              /\ ParseStatement(issued[1].text).verb # "?"
              /\ ParseStatement(issued[1].text).name = cr.name

C19_Witness ==
    /\ cr.name = <<"\"", "a", "\"">>
    /\ result.op = "Create"
    /\ Len(issued) = 1
    /\ Len(QuoteIdentifier(cr.name)) = 7

\* The text of the error a call on a handle without a session returns.
SessionErrors == {"Cassandra session is not initialized", "cassandra session is not initialized"}

\* C20. A connection that cannot be established is reported once, when the
\* handle is built, and not by the Exec and Query calls made on it later.
C20_ConnectionFailureReportedOnce ==
    ~db.session
    => /\ result.op = "None" => result.err # NoError
       /\ result.op # "None" => Range(result.err) \cap SessionErrors = {}

\* The name a keyspace or role statement is about: the bound argument of a
\* query, else the identifier the store reads in the text.
NamedBy(s) ==
    IF s.args # <<>> THEN s.args[1]
    ELSE IF ParseStatement(s.text).verb = "?" THEN <<"?">>
    ELSE ParseStatement(s.text).name

\* C21. ExternalName invariant: no Observe, Create, Update or Delete of any
\* kind changes the resource's ExternalName, and every statement a keyspace
\* or role operation issues names that same ExternalName.
C21_ExternalNameKept ==
    [][/\ cr'.name = cr.name
       /\ cr.kind \in {"Keyspace", "Role"} =>
             \A k \in DOMAIN issued' : NamedBy(issued'[k]) = cr.name]_vars

C21_Witness ==
    /\ cr.kind = "Role"
    /\ cr.name = RoleName
    /\ result.op = "Delete"
    /\ result.err = NoError
    /\ Len(issued) = 1
    /\ NamedBy(issued[1]) = RoleName

\* The part of the store resource c is about, and the store without it.
Own(c, st) ==
    CASE c.kind = "Keyspace" -> st.keyspaces[c.name]
      [] c.kind = "Role" -> st.roles[c.name]
      [] c.kind = "Grant" -> st.permissions[<<Deref(c.spec.Role), Deref(c.spec.Keyspace)>>]

Rest(c, st) ==
    CASE c.kind = "Keyspace" -> [st EXCEPT !.keyspaces[c.name] = NoRow]
      [] c.kind = "Role" -> [st EXCEPT !.roles[c.name] = NoRow]
      [] c.kind = "Grant" ->
            [st EXCEPT !.permissions[<<Deref(c.spec.Role), Deref(c.spec.Keyspace)>>] = {}]

Deletions(c, st, d) ==
    CASE c.kind = "Keyspace" -> {KeyspaceDelete(c, st, d.session, TRUE)}
      [] c.kind = "Role" -> {RoleDelete(c, st, d.session, TRUE)}
      [] c.kind = "Grant" -> {GrantDelete(c, st, d.session, 0)}

\* The row sequences the query of c's Observe may scan on store st; what
\* Observe returns is a function of them.
OwnReplies(c, st) ==
    CASE c.kind = "Keyspace" -> StoreReplies(st, KeyspaceSelectText, <<c.name>>)
      [] c.kind = "Role" -> StoreReplies(st, RoleSelectText, <<c.name>>)
      [] c.kind = "Grant" -> StoreReplies(st, GrantSelectText(c), <<Deref(c.spec.Role)>>)

\* What Create, Update and Delete of the pass for c return, send and make
\* of its part of the store, on store st.
OwnOutcomes(c, st, d) ==
    {[result |-> o.result, issued |-> o.issued, cr |-> o.cr, own |-> Own(c, o.store)] :
        o \in Creations(c, st, d) \cup Updates(c, st, d) \cup Deletions(c, st, d)}

\* A step in which a statement of another pass changed the store.
PeerStep ==
    /\ result' = result
    /\ issued' = issued
    /\ input' = input
    /\ store' # store
    /\ PeerStatement

\* A statement of c has outcome e1 on store st1, reached by a statement of
\* another pass from a store on which it has outcome e0: the same error, the
\* same part of c, and the rest of st1 as it is.
SameEffect(c, st1, e1, e0) ==
    /\ e1.err = e0.err
    /\ Own(c, e1.store) = Own(c, e0.store)
    /\ Rest(c, e1.store) = Rest(c, st1)

\* C22. Passes for unrelated resources do not interfere: a statement of
\* another pass that reaches the store between the operations of this pass
\* changes neither this resource's part of the store, nor what any of its
\* operations returns, sends and writes, nor the effect of any single
\* statement of it; and an operation of this pass leaves the rest of the
\* store as it was.  So every interleaving of the statements of two passes
\* gives the results and the final store of one pass after the other.
C22_NoInterference ==
    [][IF PeerStep
       THEN /\ Own(cr, store') = Own(cr, store)
            /\ OwnReplies(cr, store') = OwnReplies(cr, store)
            /\ OwnOutcomes(cr, store', db) = OwnOutcomes(cr, store, db)
            /\ \A u \in ExecTexts(cr) :
                  SameEffect(cr, store', Exec(TRUE, store', u, TRUE),
                             Exec(TRUE, store, u, TRUE))
       ELSE Rest(cr, store') = Rest(cr, store)]_vars

C22_Witness ==
    /\ cr.kind = "Keyspace"
    /\ store.keyspaces[RoleName] # NoRow
    /\ store.roles[KeyspaceName] # NoRow
    /\ store.permissions[<<RoleName, RoleName>>] # {}
    /\ result.op = "Observe"
    /\ result.exists

\* C23. Keyspace and Role Observe on an existing resource report up to date
\* only when every desired field was present at the start of the pass: an
\* Observe that had to late-initialize a desired field (one was absent)
\* reports upToDate = FALSE in that pass.
C23_AbsentFieldNotUpToDate ==
    (/\ cr.kind \in {"Keyspace", "Role"}
     /\ result.op = "Observe"
     /\ result.err = NoError
     /\ result.exists
     /\ result.lateInit)
    => ~result.upToDate

\* C24. Keyspace Observe never reports a zero or empty value for an
\* attribute it could not determine: when the row has no 'class', no
\* 'replication_factor', or a factor that is not an integer, late-init
\* copies neither an empty strategy nor a factor of 0 into the desired state.
C24_NoZeroValueLateInit ==
    cr.kind = "Keyspace" =>
        /\ cr.spec.ReplicationClass # Ptr(<<>>)
        /\ cr.spec.ReplicationFactor # Ptr(0)

\* The grant resources that desire the same set of privileges as cr, in any
\* order and with any repetition.
SameSetGrants ==
    {c \in GrantCRs :
        /\ c.spec.Role = cr.spec.Role
        /\ c.spec.Keyspace = cr.spec.Keyspace
        /\ Range(c.spec.Privileges) = Range(cr.spec.Privileges)}

\* C25. Grant set semantics: desired lists that hold the same set of
\* privileges get the same (exists, upToDate) from Observe on the same
\* observed permissions.
C25_GrantSetSemantics ==
    (GrantObserved /\ db.session /\ input.answer) =>
        \A c \in SameSetGrants : \A o \in Observations(c, store) :
            /\ o.result.exists = result.exists
            /\ o.result.upToDate = result.upToDate

\* The step ended as outcome o does: the same statements sent, the same
\* store, the same error or success.
SameRun(o) ==
    /\ o.issued = issued'
    /\ o.store = store'
    /\ o.cr = cr'
    /\ o.result.err = result'.err
    /\ o.result.secret = result'.secret

\* C26. Grant Update is Grant Create: on the same resource, store, handle and
\* failing statement, Update sends the GRANT statements Create sends, in the
\* same order, stops at the same statement, and leaves the same store (and
\* the other way round).
C26_GrantUpdateIsCreate ==
    [][/\ (cr.kind = "Grant" /\ result'.op = "Update") =>
             SameRun(GrantCreate(cr, store, db.session, input'.failAt))
       /\ (cr.kind = "Grant" /\ result'.op = "Create") =>
             SameRun(GrantUpdate(cr, store, db.session, input'.failAt))]_vars

C26_Witness ==
    /\ cr.kind = "Grant"
    /\ result.op = "Update"
    /\ db.session
    /\ input.failAt = 2
    /\ Len(issued) = 2
    /\ issued[1] # issued[2]
    /\ result.err # NoError

\* Exec or Query outcome e of a handle without a session: an error, nothing sent.
NothingSent(e) == e.err # NoError /\ e.sent = <<>>

\* C27. On a handle with no connection every Exec and Query returns an error
\* and sends nothing, and every controller operation except Keyspace Update
\* returns an error; no operation changes the store or the desired state.
C27_NoConnection ==
    [][(~db.session /\ db' = db /\ result'.op \in {"Observe", "Create", "Update", "Delete"}) =>
          /\ issued' = <<>>
          /\ store' = store
          /\ cr' = cr
          /\ ~(cr.kind = "Keyspace" /\ result'.op = "Update") => result'.err # NoError
          /\ \A u \in ExecTexts(cr) :
                /\ NothingSent(Exec(FALSE, store, u, TRUE))
                /\ Exec(FALSE, store, u, TRUE).store = store
          /\ \A reply \in Replies(store, RoleSelectText, <<cr.name>>) :
                NothingSent(Query(FALSE, RoleSelectText, <<cr.name>>, reply))]_vars

C27_Witness ==
    /\ ~db.session
    /\ cr.kind = "Grant"
    /\ store.permissions[<<RoleName, KeyspaceName>>] # {}
    /\ result.op = "Delete"
    /\ result.err # NoError
    /\ issued = <<>>

\* C28. Role Observe and Grant Observe never report a failed query as
\* absence: when the store fails the query, Observe returns an error.
C28_FailedQueryIsAnError ==
    (/\ cr.kind \in {"Role", "Grant"}
     /\ result.op = "Observe"
     /\ db.session
     /\ ~input.answer)
    => result.err # NoError

\* C29. After Role Create calls for the same ExternalName, also on a role
\* that exists, the password of the ConnectionSecret the last successful
\* call returned is the password the role authenticates with in the store.
C29_SecretIsStorePassword ==
    (RoleCreated /\ result.err = NoError) =>
        /\ store.roles[cr.name] # NoRow
        /\ Deref(store.roles[cr.name]).password = Deref(result.secret).password

\* A pass has finished: its last operation has returned and the next pass
\* has not connected yet.
PassFinished == pc = "observe" /\ result.op \notin {"None", "Connect"}

\* C30. Every store handle opened for a pass is closed by the time the pass
\* has finished: after any number of completed passes no session is open.
C30_SessionsClosed == PassFinished => db.open = 0

\* The query of the Observe of resource c, as Query sends it.
ObserveQuery(c) ==
    CASE c.kind = "Keyspace" -> Statement(KeyspaceSelectText, <<c.name>>)
      [] c.kind = "Role" -> Statement(RoleSelectText, <<c.name>>)
      [] c.kind = "Grant" -> Statement(GrantSelectText(c), <<Deref(c.spec.Role)>>)

\* C31. Observe is read-only on the store: for every kind, desired state and
\* store, Observe on a live handle sends exactly one statement, its SELECT
\* query (nothing at all without a session), the store runs none of it as a
\* statement that writes, and the store after Observe is the store before it.
C31_ObserveReadOnly ==
    [][result'.op = "Observe" =>
          /\ store' = store
          /\ issued' = IF db.session THEN <<ObserveQuery(cr)>> ELSE <<>>
          /\ \A k \in DOMAIN issued' :
                /\ ParseStatement(issued'[k].text).verb = "?"
                /\ StoreApply(store, issued'[k].text) = store]_vars

C31_Witness ==
    /\ result.op = "Observe"
    /\ cr.kind = "Grant"
    /\ db.session
    /\ result.err = NoError
    /\ result.exists
    /\ ~result.upToDate
    /\ Len(issued) = 1

\* C32. No Grant operation aborts the process: for every Grant desired state,
\* also with the role or the keyspace absent, each of Observe, Create, Update
\* and Delete returns a result or an error of that pass.
C32_GrantNeverAborts ==
    cr.kind = "Grant" =>
        /\ pc # "aborted"
        /\ result.err # errNilDereference

====
